---- MODULE Spec2Model ----
(***************************************************************************)
(* Model of cheapqueryparser/lucparser.py: deparse (a pipeline of regex    *)
(* rewrites, a split and a classification) and assemble.                    *)
(*                                                                         *)
(* A Python str is a sequence of one-character strings.  A regex that is a *)
(* plain run of characters or character classes is a sequence of sets of   *)
(* characters; re.sub, re.findall, re.split, re.match, str.replace and     *)
(* str.split are operators that compute what the Python functions compute. *)
(***************************************************************************)
EXTENDS Integers, Sequences, FiniteSets, TLC

VARIABLES q, qstring, qsplitted, tokens, first, round, pc

vars == <<q, qstring, qsplitted, tokens, first, round, pc>>

(* ------------------------------ characters ----------------------------- *)
BS  == "\\"
DQ  == "\""
SP  == " "
TAB == "\t"
NL  == "\n"

\* what \s matches (the ASCII part of it that a TLA+ string can hold)
Whitespace == {SP, TAB, NL, "\r", "\f"}

\* the literal string s as a regex: one singleton class per character
Lit(s) == [k \in 1..Len(s) |-> {s[k]}]

(* ------------------------------ sentinels ------------------------------ *)
METAESC == <<"_", "&", "_", "M", "E", "T", "A", "E", "S", "C", "_", "&", "_">>
QUOT    == <<"_", "&", "_", "Q", "U", "O", "T", "_", "&", "_">>
SPACE   == <<"_", "&", "_", "S", "P", "A", "C", "E", "_", "&", "_">>
COLON   == <<"_", "&", "_", "C", "O", "L", "O", "N", "_", "&", "_">>
PA      == <<"_", "&", "_", "P", "A", "_", "&", "_">>
RENS    == <<"_", "&", "_", "R", "E", "N", "S", "_", "&", "_">>

Sentinels == {METAESC, QUOT, SPACE, COLON, PA, RENS}

\* _replacepairs: kind -> (pattern, replacement); nostart is the (?<!^)
\* lookbehind, which only the subquery colon pair carries
replacepairs ==
  [metaesc |-> [fro |-> <<{BS}, {BS}>>, nostart |-> FALSE, to |-> METAESC],
   quot    |-> [fro |-> <<{BS}, {DQ}>>, nostart |-> FALSE, to |-> QUOT],
   space   |-> [fro |-> <<Whitespace>>, nostart |-> FALSE, to |-> SPACE],
   colon   |-> [fro |-> <<{":"}>>,      nostart |-> FALSE, to |-> COLON],
   pa      |-> [fro |-> <<{"("}>>,      nostart |-> FALSE, to |-> PA],
   rens    |-> [fro |-> <<{")"}>>,      nostart |-> FALSE, to |-> RENS]]

\* _revpairs with the colon marker reversed to the marker of the space
revpairs_colon_slip ==
  << [fro |-> Lit(METAESC), nostart |-> FALSE, to |-> <<BS, BS>>],
     [fro |-> Lit(QUOT),    nostart |-> FALSE, to |-> <<BS, DQ>>],
     [fro |-> Lit(SPACE),   nostart |-> FALSE, to |-> <<SP>>],
     [fro |-> Lit(COLON),   nostart |-> FALSE, to |-> SPACE],
     [fro |-> Lit(PA),      nostart |-> FALSE, to |-> <<"(">>],
     [fro |-> Lit(RENS),    nostart |-> FALSE, to |-> <<")">>] >>

\* _revpairs in the order the dict yields them; "to" is the replacement
\* template exactly as re.sub receives it ('\\\\' is two backslashes,
\* '\\"' is a backslash and a quote)
revpairs ==
  << [fro |-> Lit(METAESC), nostart |-> FALSE, to |-> <<BS, BS>>],
     [fro |-> Lit(QUOT),    nostart |-> FALSE, to |-> <<BS, DQ>>],
     [fro |-> Lit(SPACE),   nostart |-> FALSE, to |-> <<SP>>],
     [fro |-> Lit(COLON),   nostart |-> FALSE, to |-> <<":">>],
     [fro |-> Lit(PA),      nostart |-> FALSE, to |-> <<"(">>],
     [fro |-> Lit(RENS),    nostart |-> FALSE, to |-> <<")">>] >>

(* ------------------------- the re / str functions ---------------------- *)
\* the regex cls matches s at position i
MatchAt(s, i, cls) ==
  /\ i + Len(cls) - 1 <= Len(s)
  /\ \A k \in 1..Len(cls) : s[i + k - 1] \in cls[k]

\* the least element of a non-empty set of numbers, the k-th smallest
MinOf(S) == CHOOSE x \in S : \A y \in S : x <= y
NthOf(S, k) == CHOOSE x \in S : Cardinality({y \in S : y < x}) = k - 1

\* the scan of a regex engine: the first position at or after i where the
\* regex matches, 0 if there is none
NextMatch(s, cls, nostart, i) ==
  LET M == {k \in i..Len(s) : MatchAt(s, k, cls) /\ (nostart => k > 1)}
  IN IF M = {} THEN 0 ELSE MinOf(M)

\* leftmost, non-overlapping replacement of every match of cls by out
RECURSIVE Subst(_, _, _, _, _)
Subst(s, cls, nostart, out, i) ==
  LET k == NextMatch(s, cls, nostart, i)
  IN IF k = 0 THEN SubSeq(s, i, Len(s))
     ELSE SubSeq(s, i, k - 1) \o out \o Subst(s, cls, nostart, out, k + Len(cls))

\* re's processing of a replacement template: \\ is one backslash, a
\* backslash before any other non-alphanumeric character stays with it
RECURSIVE ExpandTemplate(_, _)
ExpandTemplate(r, i) ==
  IF i > Len(r) THEN <<>>
  ELSE IF r[i] = BS /\ i < Len(r)
       THEN (IF r[i + 1] = BS THEN <<BS>> ELSE <<BS, r[i + 1]>>)
            \o ExpandTemplate(r, i + 2)
       ELSE <<r[i]>> \o ExpandTemplate(r, i + 1)

\* re.sub(pair.fro, pair.to, s)
ReSub(pair, s) == Subst(s, pair.fro, pair.nostart, ExpandTemplate(pair.to, 1), 1)

\* s.replace(old, new)
StrReplace(s, old, new) == Subst(s, Lit(old), FALSE, new, 1)

\* s contains the literal string sub
Contains(s, sub) == \E i \in 1..Len(s) : MatchAt(s, i, Lit(sub))

(* A range pattern  open .*? close : open is a literal, close a character; *)
(* escOpen / escClose are the (?<!\\) lookbehinds; "." is not a newline.   *)
\* the end of the shortest match that starts at i with the opening matched,
\* 0 if there is none
SpanEnd(s, pat, i) ==
  LET st == i + Len(pat.open)
      C  == {j \in st..Len(s) : s[j] = pat.close /\ (pat.escClose => s[j - 1] # BS)}
  IN IF /\ MatchAt(s, i, Lit(pat.open))
        /\ (pat.escOpen /\ i > 1) => s[i - 1] # BS
        /\ C # {}
        /\ \A k \in st..(MinOf(C) - 1) : s[k] # NL
     THEN MinOf(C) ELSE 0

\* re.findall(pat, s): the matched substrings, left to right
RECURSIVE FindAll(_, _, _)
FindAll(pat, s, i) ==
  LET M == {k \in i..Len(s) : SpanEnd(s, pat, k) > 0}
  IN IF M = {} THEN <<>>
     ELSE <<SubSeq(s, MinOf(M), SpanEnd(s, pat, MinOf(M)))>>
          \o FindAll(pat, s, SpanEnd(s, pat, MinOf(M)) + 1)

\* qstring.split(): the maximal runs of non-whitespace characters
Split(s) ==
  LET B == {i \in 1..Len(s) : s[i] \notin Whitespace /\ (i > 1 => s[i - 1] \in Whitespace)}
      E == {i \in 1..Len(s) : s[i] \notin Whitespace /\ (i < Len(s) => s[i + 1] \in Whitespace)}
  IN [k \in 1..Cardinality(B) |-> SubSeq(s, NthOf(B, k), NthOf(E, k))]

\* ' '.join(xs)
RECURSIVE Join(_)
Join(xs) ==
  IF xs = <<>> THEN <<>>
  ELSE IF Len(xs) = 1 THEN xs[1]
  ELSE xs[1] \o <<SP>> \o Join(Tail(xs))

(* ------------------------------ the stages ----------------------------- *)
replace_metaescape(s) == ReSub(replacepairs.metaesc, s)

replace_esc_quotes(s) == ReSub(replacepairs.quot, s)

\* the inner loop of _replace_in_range: for m, rep in zip(matches, replacements)
RECURSIVE ReplaceMatches(_, _, _)
ReplaceMatches(s, matches, repair) ==
  IF matches = <<>> THEN s
  ELSE ReplaceMatches(StrReplace(s, Head(matches), ReSub(repair, Head(matches))),
                      Tail(matches), repair)

RECURSIVE replace_in_range(_, _, _)
replace_in_range(s, rangepats, repair) ==
  IF rangepats = <<>> THEN s
  ELSE replace_in_range(ReplaceMatches(s, FindAll(Head(rangepats), s, 1), repair),
                        Tail(rangepats), repair)

rangeex  == [open |-> <<"{">>, escOpen |-> TRUE,  close |-> "}", escClose |-> TRUE]
rangeinc == [open |-> <<"[">>, escOpen |-> TRUE,  close |-> "]", escClose |-> TRUE]
regex    == [open |-> <<"/">>, escOpen |-> TRUE,  close |-> "/", escClose |-> TRUE]
quoted   == [open |-> <<DQ>>,  escOpen |-> FALSE, close |-> DQ,  escClose |-> FALSE]

ranges == <<rangeex, rangeinc, regex, quoted>>

RECURSIVE ForEachPair(_, _, _)
ForEachPair(s, rangepats, re_pairs) ==
  IF re_pairs = <<>> THEN s
  ELSE ForEachPair(replace_in_range(s, rangepats, Head(re_pairs)),
                   rangepats, Tail(re_pairs))

repspaces_in_ranges(s) ==
  ForEachPair(s, ranges, <<replacepairs.space, replacepairs.colon,
                           replacepairs.pa, replacepairs.rens>>)

\* re.sub('[\\(\\)]', lambda x: reparens[x.group()], s)
RECURSIVE AddParensFrom(_, _)
AddParensFrom(s, i) ==
  LET k == NextMatch(s, <<{"(", ")"}>>, FALSE, i)
  IN IF k = 0 THEN SubSeq(s, i, Len(s))
     ELSE SubSeq(s, i, k - 1) \o <<SP, s[k], SP>> \o AddParensFrom(s, k + 1)

addparenswhitespace(s) == AddParensFrom(s, 1)

\* the first position at or after i that holds no whitespace
SkipSpaces(s, i) ==
  MinOf({k \in i..(Len(s) + 1) : k > Len(s) \/ s[k] \notin Whitespace})

\* \s*(?<!\\\\):\s* matches at i: the whitespace run from i ends at a colon
\* that two backslashes do not precede (the raw string r'(?<!\\\\)' is a
\* lookbehind for two backslashes)
StripMatchAt(s, i) ==
  LET k == SkipSpaces(s, i)
  IN /\ k <= Len(s)
     /\ s[k] = ":"
     /\ ~(k >= 3 /\ s[k - 1] = BS /\ s[k - 2] = BS)

\* re.sub(r'\s*(?<!\\\\):\s*', ':', s)
RECURSIVE StripFrom(_, _)
StripFrom(s, i) ==
  LET M == {k \in i..Len(s) : StripMatchAt(s, k)}
  IN IF M = {} THEN SubSeq(s, i, Len(s))
     ELSE SubSeq(s, i, MinOf(M) - 1) \o <<":">>
          \o StripFrom(s, SkipSpaces(s, SkipSpaces(s, MinOf(M)) + 1))

stripspaces(s) == StripFrom(s, 1)

subquery == [open |-> <<":", "(">>, escOpen |-> FALSE, close |-> ")", escClose |-> TRUE]

\* _repspaces_in_subqueries without the pair that protects the inner colons
repspaces_in_subqueries_spaces_only(s) ==
  ForEachPair(s, <<subquery>>, <<replacepairs.space>>)

repspaces_in_subqueries(s) ==
  ForEachPair(s, <<subquery>>,
              <<replacepairs.space,
                [fro |-> <<{":"}>>, nostart |-> TRUE, to |-> COLON]>>)

(* ------------------------------ the tokens ----------------------------- *)
\* Optional<string>: None is the empty tuple, a present value a 1-tuple
None == <<>>
Some(s) == <<s>>

\* a plain str entry of the list
Literal(text) == [kind |-> "Literal", field |-> None, term |-> text]
\* a dict {'field': f, 'term': t}
Term(f, t) == [kind |-> "Term", field |-> f, term |-> t]

AND_ == <<"A", "N", "D">>
OR_  == <<"O", "R">>
NOT_ == <<"N", "O", "T">>

\* the alternatives of the nonterms regex
nonterms == {AND_, OR_, NOT_, <<"!">>, <<"&", "&">>, <<"|", "|">>, <<"(">>, <<")">>}

\* re.match(nonterms, t): the regex is anchored at the start of t only
IsNonterm(t) == \E n \in nonterms : MatchAt(t, 1, Lit(n))

\* re.split('(?<!\\):', t)
ReSplitColon(t) ==
  LET C == {i \in 1..Len(t) : t[i] = ":" /\ (i > 1 => t[i - 1] # BS)}
      n == Cardinality(C)
  IN [k \in 1..(n + 1) |->
        SubSeq(t, IF k = 1 THEN 1 ELSE NthOf(C, k - 1) + 1,
                  IF k = n + 1 THEN Len(t) ELSE NthOf(C, k) - 1)]

TermDict(t) ==
  LET parts == ReSplitColon(t)
  IN IF Len(parts) = 1 THEN Term(None, parts[1])
     ELSE Term(Some(parts[1]), parts[2])

termdicts(qs) ==
  [i \in 1..Len(qs) |-> IF IsNonterm(qs[i]) THEN Literal(qs[i]) ELSE TermDict(qs[i])]

\* for fro, to in _revpairs.values(): v = re.sub(fro, to, v)
RECURSIVE UnreplaceValue(_, _)
UnreplaceValue(v, pairs) ==
  IF pairs = <<>> THEN v
  ELSE UnreplaceValue(ReSub(Head(pairs), v), Tail(pairs))

unreplace(ts) ==
  [i \in 1..Len(ts) |->
     IF ts[i].kind # "Term" THEN ts[i]
     ELSE Term(IF ts[i].field # None /\ ts[i].field[1] # <<>>
               THEN Some(UnreplaceValue(ts[i].field[1], revpairs))
               ELSE ts[i].field,
               IF ts[i].term # <<>>
               THEN UnreplaceValue(ts[i].term, revpairs)
               ELSE ts[i].term)]

\* the entry rendered with a bare colon between field and term
Piece_bare_colon(t) ==
  IF t.kind = "Term"
  THEN (IF t.field # None /\ t.field[1] # <<>>
        THEN t.field[1] \o <<":">> ELSE <<>>) \o t.term
  ELSE t.term

\* the string one entry contributes to querylist
Piece(t) ==
  IF t.kind = "Term"
  THEN (IF t.field # None /\ t.field[1] # <<>>
        THEN t.field[1] \o <<SP, ":", SP>> ELSE <<>>) \o t.term
  ELSE t.term

assemble(ts) == Join([i \in 1..Len(ts) |-> Piece(ts[i])])

(* --------------------------- the state machine ------------------------- *)
(* q is the query handed to deparse, qstring the string _parse rewrites,   *)
(* qsplitted the result of qstring.split(), tokens the list _termdicts     *)
(* builds and _unreplace finishes.  After the first deparse the caller     *)
(* assembles the tokens and deparses the result again (round 2); first     *)
(* keeps what the first deparse returned.                                  *)

\* deparse(qstring) is called: _parse starts with _replace_metaescape
ReplaceMetaescape ==
  /\ pc = "start"
  /\ qstring' = replace_metaescape(qstring)
  /\ pc' = "metaesc"
  /\ UNCHANGED <<q, qsplitted, tokens, first, round>>

ReplaceEscQuotes ==
  /\ pc = "metaesc"
  /\ qstring' = replace_esc_quotes(qstring)
  /\ pc' = "quot"
  /\ UNCHANGED <<q, qsplitted, tokens, first, round>>

RepspacesInRanges ==
  /\ pc = "quot"
  /\ qstring' = repspaces_in_ranges(qstring)
  /\ pc' = "ranges"
  /\ UNCHANGED <<q, qsplitted, tokens, first, round>>

AddParensWhitespace ==
  /\ pc = "ranges"
  /\ qstring' = addparenswhitespace(qstring)
  /\ pc' = "parens"
  /\ UNCHANGED <<q, qsplitted, tokens, first, round>>

Stripspaces ==
  /\ pc = "parens"
  /\ qstring' = stripspaces(qstring)
  /\ pc' = "strip"
  /\ UNCHANGED <<q, qsplitted, tokens, first, round>>

RepspacesInSubqueries ==
  /\ pc = "strip"
  /\ qstring' = repspaces_in_subqueries(qstring)
  /\ pc' = "subq"
  /\ UNCHANGED <<q, qsplitted, tokens, first, round>>

\* qstring.split(), the argument of _termdicts
SplitQuery ==
  /\ pc = "subq"
  /\ qsplitted' = Split(qstring)
  /\ pc' = "split"
  /\ UNCHANGED <<q, qstring, tokens, first, round>>

Termdicts ==
  /\ pc = "split"
  /\ tokens' = termdicts(qsplitted)
  /\ pc' = "termdicts"
  /\ UNCHANGED <<q, qstring, qsplitted, first, round>>

\* _unreplace, after which deparse returns
Unreplace ==
  /\ pc = "termdicts"
  /\ tokens' = unreplace(tokens)
  /\ pc' = "deparsed"
  /\ UNCHANGED <<q, qstring, qsplitted, first, round>>

\* the caller assembles what deparse returned and deparses the result
Assemble ==
  /\ pc = "deparsed"
  /\ round = 1
  /\ first' = tokens
  /\ qstring' = assemble(tokens)
  /\ round' = 2
  /\ pc' = "start"
  /\ UNCHANGED <<q, qsplitted, tokens>>

Next ==
  \/ ReplaceMetaescape
  \/ ReplaceEscQuotes
  \/ RepspacesInRanges
  \/ AddParensWhitespace
  \/ Stripspaces
  \/ RepspacesInSubqueries
  \/ SplitQuery
  \/ Termdicts
  \/ Unreplace
  \/ Assemble

InitWith(Q) ==
  /\ q \in Q
  /\ qstring = q
  /\ qsplitted = <<>>
  /\ tokens = <<>>
  /\ first = <<>>
  /\ round = 1
  /\ pc = "start"


(* ------------------------------- the inputs ---------------------------- *)
MaxLen    == 4
MaxSpan   == 2
MaxWords  == 2
MaxEsc    == 3
MaxGroup  == 3
MaxTokens == 2
MaxFrag   == 4

\* the strings of at most n characters of A
Strings(A, n) == UNION {[1..k -> A] : k \in 0..n}
\* the non-empty sequences of at most n elements of A
Lists(A, n) == UNION {[1..k -> A] : k \in 1..n}

\* ''.join(xs)
RECURSIVE Concat(_)
Concat(xs) == IF xs = <<>> THEN <<>> ELSE Head(xs) \o Concat(Tail(xs))

\* every short query over the characters the tokenizer treats specially
GenAlphabet == {"a", ":", SP, "(", ")", BS}
GeneralQueries == Strings(GenAlphabet, MaxLen)

\* one protected span, alone or glued to a preceding character
Delims == {<<DQ, DQ>>, <<"{", "}">>, <<"[", "]">>, <<"/", "/">>}
SpanAlphabet == {"a", SP, TAB, NL, ":"}
SpanPrefixes == {<<>>, <<"x">>, <<"!">>}
SpanQueries ==
  {p \o <<d[1]>> \o c \o <<d[2]>> :
     p \in SpanPrefixes, d \in Delims, c \in Strings(SpanAlphabet, MaxSpan)}

\* operators, and words that only start or look like one
Words == nonterms \cup
  {<<"O", "R", "A", "N", "G", "E">>, <<"N", "O", "T", "E">>,
   <<"A", "N", "D", "y", ":", "x">>, <<"!", "f", "o", "o">>,
   <<"a", "n", "d">>, <<"x">>}
WordQueries == {Join(ws) : ws \in Lists(Words, MaxWords)}

\* single terms made of letters, doubled backslashes and escaped quotes
EscPieces == {<<"a">>, <<BS, BS>>, <<BS, DQ>>}
EscapeQueries == {Concat(ps) : ps \in Lists(EscPieces, MaxEsc)}

\* field:(w1 ... wn), and the example of the module docstring
DocQuery ==
  <<"a", "u", "t", "h", "o", "r", ":", SP, "M", "e", "i", "e", "r", SP,
    "t", "a", "g", "s", ":", "(", "w", "a", "t", "e", "r", SP, "O", "R", SP,
    "f", "i", "r", "e", ")", SP, DQ, "o", "p", "e", "n", SP,
    "a", "c", "c", "e", "s", "s", DQ>>
GroupFields == {<<"f">>, <<"t", "a", "g", "s">>}
GroupWords == {<<"a">>, OR_, <<"b", ":", "c">>}
GroupQueries ==
  {f \o <<":", "(">> \o Join(ws) \o <<")">> :
     f \in GroupFields, ws \in Lists(GroupWords, MaxGroup)} \cup {DocQuery}

Queries ==
  GeneralQueries \cup SpanQueries \cup WordQueries \cup EscapeQueries \cup GroupQueries

Init == InitWith(Queries)

Spec == Init /\ [][Next]_vars

\* only the grouped subqueries
InitGroup == InitWith(GroupQueries)

SpecGroup == InitGroup /\ [][Next]_vars

\* token sequences as a caller hands them to assemble: built or edited by
\* hand, fields absent, empty or present
DocEdited ==
  << Term(Some(<<"a", "u", "t", "h", "o", "r">>),
          <<"(", "M", "e", "i", "e", "r", SP, "O", "R", SP,
            "M", "u", "e", "l", "l", "e", "r", SP, "-", "D", "o", "n", "a", "l", "d", ")">>),
     Term(Some(<<"t", "a", "g", "s">>),
          <<"(", SP, "w", "a", "t", "e", "r", SP, "O", "R", SP, "f", "i", "r", "e", SP, ")">>),
     Term(None, <<DQ, "o", "p", "e", "n", SP, "a", "c", "c", "e", "s", "s", DQ>>) >>
DocAssembled ==
  <<"a", "u", "t", "h", "o", "r", SP, ":", SP,
    "(", "M", "e", "i", "e", "r", SP, "O", "R", SP,
    "M", "u", "e", "l", "l", "e", "r", SP, "-", "D", "o", "n", "a", "l", "d", ")", SP,
    "t", "a", "g", "s", SP, ":", SP,
    "(", SP, "w", "a", "t", "e", "r", SP, "O", "R", SP, "f", "i", "r", "e", SP, ")", SP,
    DQ, "o", "p", "e", "n", SP, "a", "c", "c", "e", "s", "s", DQ>>
TokenValues ==
  {Literal(AND_), Literal(<<"(">>)} \cup
  {Term(f, t) : f \in {None, Some(<<>>), Some(<<"f">>)},
                t \in {<<>>, <<"a">>, <<"b", SP, "c">>}}
TokenLists == Strings(TokenValues, MaxTokens) \cup {DocEdited}

InitAssemble ==
  /\ tokens \in TokenLists
  /\ q = <<>>
  /\ qstring = <<>>
  /\ qsplitted = <<>>
  /\ first = <<>>
  /\ round = 1
  /\ pc = "deparsed"

SpecAssemble == InitAssemble /\ [][Next]_vars

\* values for the Unescaper: fragments of sentinels next to and inside
\* each other
Fragments ==
  {<<"_", "&", "_">>, <<"_">>, <<"S", "P", "A", "C", "E", "_", "&", "_">>,
   <<"C", "O", "L", "O", "N", "_", "&", "_">>,
   <<"M", "E", "T", "A", "E", "S", "C", "_", "&", "_">>,
   <<"P", "A", "_", "&", "_">>, <<SP>>, <<":">>}
Values == {Concat(fs) : fs \in Lists(Fragments, MaxFrag)}

InitUnescape ==
  /\ q \in Values
  /\ qstring = q
  /\ qsplitted = <<q>>
  /\ tokens \in {<<Term(None, q)>>, <<Term(Some(q), q)>>}
  /\ first = <<>>
  /\ round = 1
  /\ pc = "termdicts"

\* the Unescaper applied to its own result
UnreplaceAgain ==
  /\ pc = "deparsed"
  /\ first' = tokens
  /\ tokens' = unreplace(tokens)
  /\ pc' = "again"
  /\ UNCHANGED <<q, qstring, qsplitted, round>>

NextUnescape == Unreplace \/ UnreplaceAgain

SpecUnescape == InitUnescape /\ [][NextUnescape]_vars

(* ------------------------------- the claims ---------------------------- *)
Lower == {"a", "b", "c", "d", "e", "f", "g", "h", "i", "j", "k", "l", "m",
          "n", "o", "p", "q", "r", "s", "t", "u", "v", "w", "x", "y", "z"}
Upper == {"A", "B", "C", "D", "E", "F", "G", "H", "I", "J", "K", "L", "M",
          "N", "O", "P", "Q", "R", "S", "T", "U", "V", "W", "X", "Y", "Z"}

HasSentinel(s) == \E m \in Sentinels : Contains(s, m)

\* the first deparse has returned
Deparsed == pc = "deparsed" /\ round = 1

\* C1: for every query without a sentinel marker, deparsing the assembled
\* result of deparse gives the token sequence deparse gave: same length,
\* same order, same Literal texts, same field and term in every Term.
C1_RoundTrip ==
  (pc = "deparsed" /\ round = 2 /\ ~HasSentinel(q)) => tokens = first

\* q is one terminated protected span, alone or glued to the characters
\* before it: it opens at the first delimiter character, closes at the last
\* character of q, and holds no other delimiter and no backslash
SpanDelimChars == {DQ, "{", "}", "[", "]", "/"}
IsSpanQuery(s) ==
  LET D == {i \in 1..Len(s) : s[i] \in SpanDelimChars}
  IN /\ Cardinality(D) = 2
     /\ Len(s) \in D
     /\ <<s[MinOf(D)], s[Len(s)]>> \in Delims
     /\ \A i \in 1..Len(s) : s[i] # BS
     /\ \A i \in 1..(MinOf(D) - 1) : s[i] \notin Whitespace \cup {":", "(", ")"}

\* C2: a terminated protected span ends up inside one token: no whitespace
\* character in it (space, tab, newline) makes a token boundary and no colon
\* in it is taken as the field separator.
C2_SpanInOneToken ==
  (Deparsed /\ IsSpanQuery(q)) =>
     /\ Len(tokens) = 1
     /\ tokens[1].field = None

\* q is f:(w1 ... wn): a lowercase field, then words of letters and inner
\* name:value pairs separated by single spaces
IsGroupQuery(s) ==
  LET C == {i \in 1..Len(s) : s[i] = ":"}
      c == MinOf(C)
      a == c + 2
      b == Len(s) - 1
  IN /\ C # {}
     /\ c >= 2
     /\ \A i \in 1..(c - 1) : s[i] \in Lower
     /\ Len(s) >= c + 3
     /\ s[c + 1] = "("
     /\ s[Len(s)] = ")"
     /\ \A i \in a..b : s[i] \in Lower \cup Upper \cup {SP, ":"}
     /\ \A i \in a..b : s[i] \in {SP, ":"} =>
           /\ i > a
           /\ i < b
           /\ s[i - 1] \in Lower \cup Upper
           /\ s[i + 1] \in Lower \cup Upper

GroupField(s) == SubSeq(s, 1, MinOf({i \in 1..Len(s) : s[i] = ":"}) - 1)
GroupInner(s) == SubSeq(s, MinOf({i \in 1..Len(s) : s[i] = ":"}) + 2, Len(s) - 1)

DocTokens ==
  << Term(Some(<<"a", "u", "t", "h", "o", "r">>), <<"M", "e", "i", "e", "r">>),
     Term(Some(<<"t", "a", "g", "s">>),
          <<"(", SP, "w", "a", "t", "e", "r", SP, "O", "R", SP, "f", "i", "r", "e", SP, ")">>),
     Term(None, <<DQ, "o", "p", "e", "n", SP, "a", "c", "c", "e", "s", "s", DQ>>) >>

\* C3: deparse of f:(w1 ... wn) is exactly one Term with field f and term
\* '( w1 ... wn )', inner words, operators and colons kept in order; and the
\* docstring query gives [Term(author, Meier), Term(tags, ( water OR fire )),
\* Term(None, "open access")].
C3_GroupIsOneTerm ==
  /\ (Deparsed /\ IsGroupQuery(q)) =>
        tokens = <<Term(Some(GroupField(q)),
                        <<"(", SP>> \o GroupInner(q) \o <<SP, ")">>)>>
  /\ (Deparsed /\ q = DocQuery) => tokens = DocTokens

\* a group with an inner name:value pair has been deparsed
C3_Witness ==
  /\ Deparsed
  /\ IsGroupQuery(q)
  /\ Len(tokens) = 1
  /\ Contains(tokens[1].term, <<"b", ":", "c">>)

\* _termdicts has classified the raw tokens
Classified == pc = "termdicts" /\ Len(tokens) = Len(qsplitted)

\* C4: a raw token is emitted as an unchanged Literal if and only if it is
\* exactly one of AND, OR, NOT, !, &&, ||, (, ); every other token (ORANGE,
\* NOTE, ANDy:x, !foo) becomes a Term.
C4_LiteralIffOperator ==
  Classified =>
    \A i \in 1..Len(tokens) :
       /\ tokens[i].kind = "Literal" <=> qsplitted[i] \in nonterms
       /\ tokens[i].kind = "Literal" => tokens[i].term = qsplitted[i]

\* the colons of t that no backslash immediately precedes
UnescapedColons(t) == {i \in 1..Len(t) : t[i] = ":" /\ (i > 1 => t[i - 1] # BS)}

\* C5: a term token is split at its first unescaped colon only: without one
\* the field is None and the term the whole token; with one or more the
\* field is the text before the first and the term ALL the text after it
\* (a:b:c gives field a, term b:c); a colon after a backslash never splits.
C5_SplitAtFirstColon ==
  Classified =>
    \A i \in 1..Len(tokens) :
       tokens[i].kind = "Term" =>
         LET t == qsplitted[i]
             C == UnescapedColons(t)
         IN IF C = {}
            THEN tokens[i] = Term(None, t)
            ELSE tokens[i] = Term(Some(SubSeq(t, 1, MinOf(C) - 1)),
                                  SubSeq(t, MinOf(C) + 1, Len(t)))

\* C6: for a query without a sentinel marker no element of deparse's output
\* holds one: not a Term's field, not a Term's term, not a Literal's text.
C6_NoSentinelInOutput ==
  (Deparsed /\ ~HasSentinel(q)) =>
    \A i \in 1..Len(tokens) :
       /\ ~HasSentinel(tokens[i].term)
       /\ tokens[i].field # None => ~HasSentinel(tokens[i].field[1])

\* s is the strings of ps, in order, joined by exactly one space
RECURSIVE IsJoinOf(_, _)
IsJoinOf(s, ps) ==
  IF ps = <<>> THEN s = <<>>
  ELSE IF Len(ps) = 1 THEN s = ps[1]
  ELSE LET n == Len(ps[1])
       IN /\ Len(s) > n
          /\ SubSeq(s, 1, n) = ps[1]
          /\ s[n + 1] = SP
          /\ IsJoinOf(SubSeq(s, n + 2, Len(s)), Tail(ps))

\* assemble has returned qstring for the sequence first
Assembled == pc = "start" /\ round = 2

\* C7 as stated: a Literal gives its text, a Term whose field is not None
\* gives field + ' : ' + term, a Term whose field is None gives term; the
\* pieces are joined by one space.
C7_AssembleAsStated ==
  Assembled =>
    IsJoinOf(qstring,
             [i \in 1..Len(first) |->
                IF first[i].kind = "Term" /\ first[i].field # None
                THEN first[i].field[1] \o <<SP, ":", SP>> \o first[i].term
                ELSE first[i].term])

\* C7 amended: a Term gives field + ' : ' + term when its field is neither
\* None nor the empty string, and term alone when it is None or empty; a
\* Literal gives its text; the pieces are joined by one space and nothing
\* is escaped.  The edited docstring sequence gives the docstring's string.
C7_Assemble ==
  /\ Assembled =>
       IsJoinOf(qstring,
                [i \in 1..Len(first) |->
                   IF /\ first[i].kind = "Term"
                      /\ first[i].field # None
                      /\ first[i].field # Some(<<>>)
                   THEN first[i].field[1] \o <<SP, ":", SP>> \o first[i].term
                   ELSE first[i].term])
  /\ (Assembled /\ first = DocEdited) => qstring = DocAssembled

\* a Term with an empty field and a Term with a field were assembled
C7_Witness ==
  /\ Assembled
  /\ first = <<Term(Some(<<>>), <<"a">>), Term(Some(<<"f">>), <<"b", SP, "c">>)>>
  /\ qstring = <<"a", SP, "f", SP, ":", SP, "b", SP, "c">>

\* C8: no Term of deparse's output has the empty string as field: a term
\* without qualifier has field None, any other field is non-empty (also for
\* ':foo' and ' : foo').
C8_NoEmptyField ==
  Deparsed =>
    \A i \in 1..Len(tokens) :
       tokens[i].kind = "Term" => tokens[i].field # Some(<<>>)

\* C9: the Unescaper is idempotent: the reverse substitutions applied to
\* their own result change nothing, also where sentinel markers overlap or
\* are adjacent.
C9_UnescapeIdempotent ==
  pc = "again" => tokens = first

\* two overlapping markers: the first application replaced one of them and
\* left the rest of the other, the second has run
C9_Witness ==
  /\ pc = "again"
  /\ q = <<"_", "&", "_", "C", "O", "L", "O", "N", "_", "&", "_",
           "S", "P", "A", "C", "E", "_", "&", "_">>
  /\ first[1].term = <<"_", "&", "_", "C", "O", "L", "O", "N", SP>>

\* s is a single term of letters, doubled backslashes and escaped quotes
RECURSIVE EscFrom(_, _)
EscFrom(s, i) ==
  IF i > Len(s) THEN TRUE
  ELSE IF s[i] \in Lower THEN EscFrom(s, i + 1)
  ELSE /\ s[i] = BS
       /\ i < Len(s)
       /\ s[i + 1] \in {BS, DQ}
       /\ EscFrom(s, i + 2)

IsEscapeTerm(s) == s # <<>> /\ EscFrom(s, 1)

\* C10: the Unescaper exactly reverses the Escaper: a single term with
\* doubled backslashes or escaped quotes comes back character for character,
\* each doubled backslash as two backslashes, each escaped quote as
\* backslash + quote.
C10_EscapesRestored ==
  (Deparsed /\ IsEscapeTerm(q)) => tokens = <<Term(None, q)>>

====
